---- MODULE Spec2Model ----
(***************************************************************************)
(* Playback scheduler of webdisplay/backend/app.py: the module globals     *)
(* (processor, playback_thread, playback_active, playback_index,           *)
(* playback_speed), the socket handlers that write them, and playback_loop *)
(* running in its own thread.                                              *)
(*                                                                         *)
(* Granularity.  pause_playback, set_speed and seek write one global and   *)
(* are one step each.  start_playback is three steps: its writes of the    *)
(* cursor, the flag and the speed (553-573), the is_alive check (577), and *)
(* the thread creation (578-579) or the second write of the flag (586).    *)
(* A loop tick is a step per read or write of a global that the handlers   *)
(* also write, see LoopStep.  The read of playback_speed in the pacing     *)
(* block is taken together with the fetch of line 656: a request that      *)
(* lands between the two leaves the tick with the sample of the old cursor *)
(* and the new speed, the state set_speed followed by the same request     *)
(* after the tick's step also gives.                                       *)
(*                                                                         *)
(* Units: timestamps and sleep times are integer microseconds; speeds are  *)
(* integers (1 = 1.0x).  All store timestamps are even, so every division  *)
(* by a speed of 1, 2 or -1 the model performs is exact.                   *)
(* Python's None is the empty sequence <<>>, a value x is <<x>>.           *)
(* The UDP socket of line 160 is taken to exist (udp_socket = TRUE).       *)
(***************************************************************************)
EXTENDS Integers, Sequences, FiniteSets, TLC

\* ---------------------------------------------------------------- bounds
MaxThreads == 2      \* Thread objects that can exist at once
MaxHandlers == 2     \* start_playback requests in flight at once (SpecRace)
MaxIndexArg == 4     \* largest index a client sends
MaxSpeedArg == 3     \* largest speed a client sends
MaxRows == 3         \* rows of a store under lookup (SpecIndex)
MaxTs == 3           \* largest timestamp, in ns, of such a store
MaxAnchors == 2      \* entries of a well-formed mapping file (SpecMapper)
MaxAnchorTime == 1   \* anchor times are 0, 2, .., 2 * MaxAnchorTime
MaxBadEntries == 2   \* entries of a mapping file with null or missing fields
MaxWideAnchors == 2  \* entries of a mapping file with the anchors of WideEntries
MantissaBits == 3    \* significant bits of a float (53 in Python)
max_range == 4       \* longest span of get_path_data (10000 at line 483)
MaxRawRows == 2      \* rows of a raw source (SpecLoad)

\* ----------------------------------------------------- program constants
MAX_SPEED == 2
DEFAULT_SPEED == 2
START_DEFAULT_SPEED == 2
SET_SPEED_DEFAULT == 1
SEEK_DEFAULT_INDEX == 0
DEFAULT_DELAY == 10000
ZERO_DIFF_DELAY == 1000
MIN_SLEEP == 1000
MAX_SLEEP == 100000
JUMP_THRESHOLD == 10000000

None == <<>>
Some(x) == <<x>>
Val(o) == o[1]

\* The timestamp mapping file.  kind "missing": Path.exists() is false;
\* "unreadable": open() or json.load() raises; "json": a list of objects, each
\* field a number Some(n), the JSON null (None), or not there (Absent).
Absent == <<0, 0>>
NoFile == [kind |-> "missing", entries |-> <<>>]
Unreadable == [kind |-> "unreadable", entries |-> <<>>]
JsonFile(entries) == [kind |-> "json", entries |-> entries]

Threads == 1..MaxThreads
Handlers == 1..MaxHandlers
SerialHandlers == {1}

\* Stores the /api/init route can install: the 'timestamp' column, in row order.
\* StoreA: steps of 400 us, 50 ms and exactly 10 s; 0 to 3 is more than 10 s.
StoreA == <<0, 400, 50400, 10050400>>
Stores == {StoreA}

\* Stores under lookup: every 'timestamp' column of at most MaxRows rows, in the
\* row order of the file (_load_data keeps the rows in file order).
SeqsUpTo(S, n) == UNION {[1..k -> S] : k \in 0..n}
LookupStores == SeqsUpTo(0..MaxTs, MaxRows)

\* A timestamp_seconds argument: a float of seconds, here the whole nanoseconds
\* nearest to it (ns) and the side on which it lies of that whole number (sub:
\* -1 below, 0 exactly on it, 1 above; less than half a nanosecond away).
Targets == [ns : -1..(MaxTs + 1), sub : {-1, 0, 1}]

\* Mapping files: the well-formed ones of at most MaxAnchors anchors, with
\* anchor times on the even numbers; the ones of at most MaxWideAnchors anchors
\* further apart, floats whose differences are not all floats; and the ones of
\* at most MaxBadEntries entries in which a field may be null or missing.
NumFields == {Some(2 * k) : k \in 0..MaxAnchorTime}
NumEntries == [data_timestamp : NumFields, video_time : NumFields]
WideEntries == [data_timestamp : {Some(1), Some(14)}, video_time : {Some(3), Some(14)}]
AnyFields == {None, Absent, Some(0), Some(2)}
AnyEntries == [data_timestamp : AnyFields, video_time : AnyFields \ {Some(2)}]
MapFiles ==
    {NoFile, Unreadable}
    \cup {JsonFile(e) : e \in SeqsUpTo(NumEntries, MaxAnchors)}
    \cup {JsonFile(e) : e \in SeqsUpTo(WideEntries, MaxWideAnchors)}
    \cup {JsonFile(e) : e \in SeqsUpTo(AnyEntries, MaxBadEntries)}

\* Times the mapper is queried with: every unit from before the first possible
\* anchor to after the last, the odd ones between two possible anchors; and two
\* times at the far end of the wide tables.
QueryTimes == (-1..(2 * MaxAnchorTime + 1)) \cup {12, 14}

\* Arguments the clients send.  NoArg: the key is absent from the request.
NoArg == None
IndexArgs == {NoArg} \cup {Some(i) : i \in -1..MaxIndexArg}
SpeedArgs == {NoArg} \cup {Some(s) : s \in -1..MaxSpeedArg}
RaceIndexArgs == {NoArg, Some(0)}
RaceSpeedArgs == {NoArg}

VARIABLES
    processor,        \* None, or Some(store): the installed FlightDataProcessor
    playback_thread,  \* None, or Some(t): the Thread object the global refers to
    playback_active,
    playback_index,
    playback_speed,
    udp_socket,       \* TRUE iff the UDP socket was created at import
    pc,               \* pc[t]: position of loop thread t
    last_timestamp,   \* playback_loop local, per thread
    data,             \* playback_loop local: the sample fetched by this tick
    sleep_time,       \* playback_loop local
    hpc,              \* hpc[h]: position of start_playback handler h
    out,              \* events emitted (and cap log lines printed) by the last step
    pending_seek,     \* history: the target of a seek issued while running, until
                      \* a tick fetches or another request arrives
    udp_failed,       \* history, per thread: the sendto of this tick raised
    count_store,      \* history, per thread: the processor whose count the tick
                      \* compared with the cursor at line 647, until its fetch
    lookup,           \* the last find_index_for_timestamp call and what it returned
    map_file,         \* the timestamp mapping file as the constructor finds it
    video_timestamp_mapper,  \* None, or Some(the VideoTimestampMapper object)
    conversion,       \* the last mapper query and what it returned
    YOUTUBE_START_OFFSET,  \* the float read from the environment at import
    reply,            \* the last HTTP response of a route, None before the first
    video_request,    \* the get_data_for_video_time request being served, or None
    jump_request      \* the last /api/jump request that found its index, or None

vars == <<processor, playback_thread, playback_active, playback_index,
          playback_speed, udp_socket, pc, last_timestamp, data, sleep_time,
          hpc, out, pending_seek, udp_failed, lookup, map_file,
          video_timestamp_mapper, conversion, YOUTUBE_START_OFFSET, reply,
          count_store, video_request, jump_request>>

globals == <<processor, playback_thread, playback_active, playback_index,
             playback_speed, udp_socket>>
locals == <<pc, last_timestamp, data, sleep_time, udp_failed, count_store>>
web == <<YOUTUBE_START_OFFSET, reply, video_request, jump_request>>
served == <<lookup, map_file, video_timestamp_mapper, conversion,
            YOUTUBE_START_OFFSET, reply, video_request>>
aux == <<lookup, map_file, video_timestamp_mapper, conversion, web>>

\* ------------------------------------------------------------ data store
get_data_count(p) == Len(p)

\* mutant of AtEnd: the bounds check off by one
AtEnd_Strict(p, index) == index > get_data_count(p)

\* line 647: playback_index >= processor.get_data_count()
AtEnd(p, index) == index >= get_data_count(p)

\* mutant of get_data_at_index: the test index < 0 left out, data_list[index]
\* counts a negative index from the end
get_data_at_index_NoNegativeTest(p, i) ==
    IF i >= Len(p) \/ -i > Len(p) THEN None
    ELSE IF i < 0 THEN Some([index |-> i, timestamp |-> p[Len(p) + i + 1]])
    ELSE Some([index |-> i, timestamp |-> p[i + 1]])

\* FlightDataProcessor.get_data_at_index: None outside [0, N)
get_data_at_index(p, i) ==
    IF i < 0 \/ i >= Len(p) THEN None
    ELSE Some([index |-> i, timestamp |-> p[i + 1]])

\* pd.to_timedelta(timestamp_seconds, unit='s').value (lines 135-136): a
\* Timedelta holds whole nanoseconds, the part of the argument below that is lost
to_ns(timestamp_seconds) == timestamp_seconds.ns

\* bisect.bisect_left(a, x), positions counted from 0
RECURSIVE bisect_loop(_, _, _, _)
bisect_loop(a, x, lo, hi) ==
    IF lo < hi
    THEN LET mid == (lo + hi) \div 2 IN
         IF a[mid + 1] < x THEN bisect_loop(a, x, mid + 1, hi)
         ELSE bisect_loop(a, x, lo, mid)
    ELSE lo
bisect_left(a, x) == bisect_loop(a, x, 0, Len(a))

Abs(x) == IF x < 0 THEN -x ELSE x

\* FlightDataProcessor.find_index_for_timestamp on the timestamp_ns_list p
find_index_for_timestamp(p, timestamp_seconds) ==
    IF Len(p) = 0 THEN None
    ELSE LET target_ns == to_ns(timestamp_seconds)
             idx == bisect_left(p, target_ns)
         IN IF idx = 0 THEN Some(0)
            ELSE IF idx >= Len(p) THEN Some(Len(p) - 1)
            ELSE LET prev_diff == Abs(p[idx] - target_ns)
                     next_diff == Abs(p[idx + 1] - target_ns)
                 IN IF prev_diff < next_diff THEN Some(idx - 1) ELSE Some(idx)

\* -------------------------------------------------- VideoTimestampMapper
\* the object after lines 13-15 of __init__; the three by-video attributes do
\* not exist yet (None: hasattr is false)
EmptyMapper ==
    [timestamps |-> <<>>, data_timestamps |-> <<>>, video_times |-> <<>>,
     timestamps_by_video |-> None, video_times_sorted |-> None,
     data_timestamps_by_video |-> None]

\* a < b on the (data_timestamp, video_time) tuples (by = "tuple") or on the
\* key x[1] (by = "video"), for operands Python can order
Less(by, a, b) ==
    IF by = "video" THEN Val(a[2]) < Val(b[2])
    ELSE IF a[1] # b[1] THEN Val(a[1]) < Val(b[1])
    ELSE IF a[2] # b[2] THEN Val(a[2]) < Val(b[2])
    ELSE FALSE

\* sorted(): ascending and stable
SortedInsert(by, sorted, x) ==
    LET k == Cardinality({i \in 1..Len(sorted) : ~Less(by, x, sorted[i])})
    IN SubSeq(sorted, 1, k) \o <<x>> \o SubSeq(sorted, k + 1, Len(sorted))
RECURSIVE Sorted(_, _)
Sorted(by, seq) ==
    IF seq = <<>> THEN <<>>
    ELSE SortedInsert(by, Sorted(by, SubSeq(seq, 1, Len(seq) - 1)), seq[Len(seq)])

\* entry['data_timestamp'] or entry['video_time'] raises KeyError (line 26)
KeyErrorIn(entries) ==
    \E i \in 1..Len(entries) :
        entries[i].data_timestamp = Absent \/ entries[i].video_time = Absent

\* sorted() of line 26 raises TypeError: two tuples are compared whose first
\* differing elements are None and something else
TupleSortRaises(pairs) ==
    \E i, j \in 1..Len(pairs) :
        \/ pairs[i][1] # pairs[j][1] /\ pairs[i][1] = None
        \/ pairs[i][1] = pairs[j][1] /\ pairs[i][2] # pairs[j][2] /\ pairs[i][2] = None

\* sorted(key=x[1]) of line 31 raises TypeError: a None key is compared
VideoSortRaises(pairs) ==
    Len(pairs) >= 2 /\ \E i \in 1..Len(pairs) : pairs[i][2] = None

Column(pairs, c) == [i \in 1..Len(pairs) |-> pairs[i][c]]

\* load_mapping: what the object holds when the method returns.  The assignments
\* of lines 26-33 are made one by one inside the try block; an exception is
\* caught at line 35 and the ones made before it stay.
load_mapping(self, file) ==
    LET pairs == [i \in 1..Len(file.entries) |->
                    <<file.entries[i].data_timestamp, file.entries[i].video_time>>]
    IN IF file.kind # "json" \/ KeyErrorIn(file.entries) \/ TupleSortRaises(pairs)
       THEN self
       ELSE LET timestamps == Sorted("tuple", pairs)
                first == [self EXCEPT !.timestamps = timestamps,
                                      !.data_timestamps = Column(timestamps, 1),
                                      !.video_times = Column(timestamps, 2)]
            IN IF VideoSortRaises(timestamps) THEN first
               ELSE LET timestamps_by_video == Sorted("video", timestamps)
                    IN [first EXCEPT
                          !.timestamps_by_video = Some(timestamps_by_video),
                          !.video_times_sorted = Some(Column(timestamps_by_video, 2)),
                          !.data_timestamps_by_video =
                              Some(Column(timestamps_by_video, 1))]

\* VideoTimestampMapper(timestamp_map_file)
VideoTimestampMapper(file) ==
    IF file.kind = "missing" THEN EmptyMapper ELSE load_mapping(EmptyMapper, file)

is_available(self) == Len(self.timestamps) > 0

\* What a query returns: None, a number num / den, or an exception.
RNone == [kind |-> "none", num |-> 0, den |-> 1]
RRaised == [kind |-> "raised", num |-> 0, den |-> 1]
RValue(num, den) == [kind |-> "value", num |-> num, den |-> den]
\* a stored field returned as it is: the JSON null is Python's None
RField(f) == IF f = None THEN RNone ELSE RValue(Val(f), 1)

\* Python floats: binary floating point, every operation rounded to the nearest
\* float, ties to the even significand.  The model has MantissaBits significant
\* bits where Python has 53, and no bound on the exponent other than Exponents.
\* A float is the fraction num / den in lowest terms, den a power of two; the
\* numbers of a mapping file and the arguments of the queries are floats.
RECURSIVE Pow2(_)
Pow2(n) == IF n = 0 THEN 1 ELSE 2 * Pow2(n - 1)
Rat(num, den) == [num |-> num, den |-> den]
RECURSIVE Reduce(_)
Reduce(q) ==
    IF q.num = 0 THEN Rat(0, 1)
    ELSE IF q.den > 1 /\ q.num % 2 = 0 THEN Reduce(Rat(q.num \div 2, q.den \div 2))
    ELSE q
Exponents == (-3 * MantissaBits)..(3 * MantissaBits)
\* q / 2^e as a fraction
Scaled(q, e) ==
    IF e >= 0 THEN Rat(q.num, q.den * Pow2(e)) ELSE Rat(q.num * Pow2(-e), q.den)
\* the float nearest to the fraction q (q.den > 0)
Fl(q) ==
    IF q.num = 0 THEN Rat(0, 1)
    ELSE LET sign == IF q.num < 0 THEN -1 ELSE 1
             a == Rat(sign * q.num, q.den)
             e == CHOOSE e \in Exponents :
                    /\ Pow2(MantissaBits - 1) * Scaled(a, e).den <= Scaled(a, e).num
                    /\ Scaled(a, e).num < Pow2(MantissaBits) * Scaled(a, e).den
             m == Scaled(a, e)
             lo == m.num \div m.den
             rem == m.num - lo * m.den
             mant == IF 2 * rem > m.den \/ (2 * rem = m.den /\ lo % 2 = 1)
                     THEN lo + 1 ELSE lo
         IN Reduce(IF e >= 0 THEN Rat(sign * mant * Pow2(e), 1)
                   ELSE Rat(sign * mant, Pow2(-e)))
FAdd(a, b) == Fl(Rat(a.num * b.den + b.num * a.den, a.den * b.den))
FSub(a, b) == Fl(Rat(a.num * b.den - b.num * a.den, a.den * b.den))
FMul(a, b) == Fl(Rat(a.num * b.num, a.den * b.den))
\* a / b for b > 0
FDiv(a, b) == Fl(Rat(a.num * b.den, a.den * b.num))

\* lines 77-78 (120-121): ratio = (x - prev_k) / (next_k - prev_k), then
\* prev_v + ratio * (next_v - prev_v), for prev_k < x < next_k
InterpolatedValue(prev_k, next_k, prev_v, next_v, x) ==
    LET ratio == FDiv(FSub(Rat(x, 1), Rat(prev_k, 1)),
                      FSub(Rat(next_k, 1), Rat(prev_k, 1)))
        value == FAdd(Rat(prev_v, 1),
                      FMul(ratio, FSub(Rat(next_v, 1), Rat(prev_v, 1))))
    IN RValue(value.num, value.den)

\* mutant of Interpolate: the exact match on the right neighbour returns the
\* left neighbour's value
Interpolate_ExactReturnsPrev(keys, vals, x) ==
    IF \E i \in 1..Len(keys) : keys[i] = None THEN RRaised
    ELSE LET k == [i \in 1..Len(keys) |-> Val(keys[i])]
             idx == bisect_left(k, x)
         IN IF idx = 0 THEN RField(vals[1])
            ELSE IF idx >= Len(k) THEN RField(vals[Len(vals)])
            ELSE LET prev_k == k[idx]
                     next_k == k[idx + 1]
                     prev_v == vals[idx]
                     next_v == vals[idx + 1]
                 IN IF prev_k = x THEN RField(prev_v)
                    ELSE IF next_k = x THEN RField(prev_v)
                    ELSE IF next_k = prev_k THEN RField(prev_v)
                    ELSE IF prev_v = None \/ next_v = None THEN RRaised
                    ELSE InterpolatedValue(prev_k, next_k, Val(prev_v), Val(next_v), x)

\* Lines 52-80 of data_to_video_time and 95-123 of video_to_data_time, the same
\* code on the two projections: keys is the sorted list bisect_left searches,
\* vals the values at the same positions.  bisect_left raises TypeError on a
\* None key, the interpolation on a None value.
Interpolate(keys, vals, x) ==
    IF \E i \in 1..Len(keys) : keys[i] = None THEN RRaised
    ELSE LET k == [i \in 1..Len(keys) |-> Val(keys[i])]
             idx == bisect_left(k, x)
         IN IF idx = 0 THEN RField(vals[1])
            ELSE IF idx >= Len(k) THEN RField(vals[Len(vals)])
            ELSE LET prev_k == k[idx]
                     next_k == k[idx + 1]
                     prev_v == vals[idx]
                     next_v == vals[idx + 1]
                 IN IF prev_k = x THEN RField(prev_v)
                    ELSE IF next_k = x THEN RField(next_v)
                    ELSE IF next_k = prev_k THEN RField(prev_v)
                    ELSE IF prev_v = None \/ next_v = None THEN RRaised
                    ELSE InterpolatedValue(prev_k, next_k, Val(prev_v), Val(next_v), x)

\* mutant of data_to_video_time: the test of line 49 left out, video_times[0]
\* raises IndexError on the empty mapper
data_to_video_time_NoGuard(self, data_timestamp) ==
    IF Len(self.timestamps) = 0 THEN RRaised
    ELSE Interpolate(self.data_timestamps, self.video_times, data_timestamp)

data_to_video_time(self, data_timestamp) ==
    IF Len(self.timestamps) = 0 THEN RNone
    ELSE Interpolate(self.data_timestamps, self.video_times, data_timestamp)

video_to_data_time(self, video_time) ==
    IF Len(self.timestamps) = 0 \/ self.timestamps_by_video = None THEN RNone
    ELSE Interpolate(Val(self.video_times_sorted),
                     Val(self.data_timestamps_by_video), video_time)

\* ---------------------------------------------------------------- speeds
Min(a, b) == IF a < b THEN a ELSE b
Max(a, b) == IF a > b THEN a ELSE b

\* data.get(key, default)
Get(arg, default) == IF arg = NoArg THEN default ELSE Val(arg)

\* mutant of CapSpeed: the cap left out
CapSpeed_NoCap(requested_speed) == requested_speed

\* min(requested_speed, 2.0)
CapSpeed(requested_speed) == Min(requested_speed, MAX_SPEED)

\* ---------------------------------------------------------------- pacing
\* a / b for b # 0, exact on the values the model divides
Quot(a, b) == IF b > 0 THEN a \div b ELSE -(a \div (-b))

\* The sleep_time a tick computes (lines 660-715) from its last_timestamp, the
\* fetched sample and playback_speed.  Raises ZeroDivisionError when the speed is 0.
Raises(d, speed) == speed = 0

\* mutant of SleepTime: the jump test inclusive, the clamp's upper bound left out
SleepTime_NoUpperClamp(last, d, speed) ==
    IF d = None THEN Quot(DEFAULT_DELAY, speed)
    ELSE IF last = None THEN Quot(DEFAULT_DELAY, speed)
    ELSE LET timestamp_diff == Val(d).timestamp - Val(last) IN
         IF timestamp_diff < 0 THEN Quot(DEFAULT_DELAY, speed)
         ELSE IF timestamp_diff >= JUMP_THRESHOLD THEN Quot(DEFAULT_DELAY, speed)
         ELSE IF timestamp_diff = 0 THEN Quot(ZERO_DIFF_DELAY, speed)
         ELSE Max(MIN_SLEEP, Quot(timestamp_diff, speed))

SleepTime(last, d, speed) ==
    IF d = None THEN Quot(DEFAULT_DELAY, speed)
    ELSE IF last = None THEN Quot(DEFAULT_DELAY, speed)
    ELSE LET timestamp_diff == Val(d).timestamp - Val(last) IN
         IF timestamp_diff < 0 THEN Quot(DEFAULT_DELAY, speed)
         ELSE IF timestamp_diff > JUMP_THRESHOLD THEN Quot(DEFAULT_DELAY, speed)
         ELSE IF timestamp_diff = 0 THEN Quot(ZERO_DIFF_DELAY, speed)
         ELSE Max(MIN_SLEEP, Min(MAX_SLEEP, Quot(timestamp_diff, speed)))

\* last_timestamp after the pacing block: line 712 overwrites the resets of 679/685
NextLastTimestamp(last, d) ==
    IF d = None THEN last ELSE Some(Val(d).timestamp)

\* ---------------------------------------------------------------- events
Ev(name, arg) == <<name, arg>>
CapLog(requested_speed) ==
    IF requested_speed > MAX_SPEED THEN {Ev("log_speed_capped", 0)} ELSE {}

Alive(t) == pc[t] \notin {"none", "dead", "crashed"}
is_alive(th) == Alive(Val(th))

\* ------------------------------------------------------------------ init
InitPlayback ==
    /\ processor = None
    /\ playback_thread = None
    /\ playback_active = FALSE
    /\ playback_index = 0
    /\ playback_speed = DEFAULT_SPEED
    /\ udp_socket = TRUE
    /\ pc = [t \in Threads |-> "none"]
    /\ last_timestamp = [t \in Threads |-> None]
    /\ data = [t \in Threads |-> None]
    /\ sleep_time = [t \in Threads |-> 0]
    /\ hpc = [h \in Handlers |-> "idle"]
    /\ out = {}
    /\ pending_seek = None
    /\ udp_failed = [t \in Threads |-> FALSE]
    /\ count_store = [t \in Threads |-> None]
    /\ video_request = None
    /\ jump_request = None
    /\ lookup = None
    /\ conversion = None
    /\ reply = None

\* the server as started without a timestamp mapping file on disk and without
\* YOUTUBE_START_OFFSET in the environment (default "0.0", line 105)
Init ==
    /\ InitPlayback
    /\ map_file = NoFile /\ video_timestamp_mapper = None
    /\ YOUTUBE_START_OFFSET = 0

\* --------------------------------------------------------------- /api/init
\* lines 195-201: a successful load installs the new processor
InitStore(s) ==
    /\ processor' = Some(s)
    /\ out' = {Ev("init_ok", Len(s))}
    /\ pending_seek' = None
    /\ lookup' = None
    /\ reply' = Some([route |-> "init",
                      response |-> [status |-> 200, data_count |-> Len(s)]])
    /\ UNCHANGED <<playback_thread, playback_active, playback_index,
                   playback_speed, udp_socket, hpc>>
    /\ UNCHANGED locals
    /\ UNCHANGED <<map_file, video_timestamp_mapper, conversion,
                   jump_request, YOUTUBE_START_OFFSET,
                   video_request>>

\* ---------------------------------------------------------- start_playback
\* jump_request is history: a start_playback or seek request that arrives after
\* the jump marks it superseded
Superseded(j) == IF j = None THEN None ELSE Some([Val(j) EXCEPT !.superseded = TRUE])

FreeHandler(h) == hpc[h] = "idle" /\ \A g \in Handlers : g < h => hpc[g] # "idle"

\* lines 548-551
StartUninitialized ==
    /\ processor = None
    /\ out' = {Ev("error", 0)}
    /\ UNCHANGED <<globals, hpc, pending_seek>>
    /\ UNCHANGED locals
    /\ UNCHANGED aux

\* lines 553-573
StartBegin(h, index, speed) ==
    /\ processor # None
    /\ FreeHandler(h)
    /\ playback_index' = Get(index, playback_index)
    /\ playback_active' = TRUE
    /\ playback_speed' = CapSpeed(Get(speed, START_DEFAULT_SPEED))
    /\ out' = (IF index = NoArg THEN {Ev("log_start_current", 0)}
                ELSE {Ev("log_start_index", Val(index))})
              \cup CapLog(Get(speed, START_DEFAULT_SPEED))
    /\ pending_seek' = None
    /\ hpc' = [hpc EXCEPT ![h] = "check_thread"]
    /\ UNCHANGED <<processor, playback_thread, udp_socket>>
    /\ UNCHANGED locals
    /\ jump_request' = Superseded(jump_request)
    /\ UNCHANGED served

\* line 577
StartCheckThread(h) ==
    /\ hpc[h] = "check_thread"
    /\ hpc' = [hpc EXCEPT ![h] =
                 IF playback_thread = None \/ ~is_alive(playback_thread)
                 THEN "create_thread" ELSE "resume"]
    /\ out' = {}
    /\ UNCHANGED <<globals, pending_seek>>
    /\ UNCHANGED locals
    /\ UNCHANGED aux

\* the Thread object line 578 creates: the lowest identity not in use
NewThread(t) == ~Alive(t) /\ \A u \in Threads : u < t => Alive(u)

\* lines 578-579 and 589
StartCreateThread(h, t) ==
    /\ hpc[h] = "create_thread"
    /\ NewThread(t)
    /\ playback_thread' = Some(t)
    /\ pc' = [pc EXCEPT ![t] = "while"]
    /\ last_timestamp' = [last_timestamp EXCEPT ![t] = None]
    /\ data' = [data EXCEPT ![t] = None]
    /\ sleep_time' = [sleep_time EXCEPT ![t] = 0]
    /\ udp_failed' = [udp_failed EXCEPT ![t] = FALSE]
    /\ UNCHANGED count_store
    /\ hpc' = [hpc EXCEPT ![h] = "idle"]
    /\ out' = {Ev("playback_started", 0)}
    /\ UNCHANGED <<processor, playback_active, playback_index, playback_speed,
                   udp_socket, pending_seek>>
    /\ UNCHANGED aux

\* lines 584-589
StartResume(h) ==
    /\ hpc[h] = "resume"
    /\ playback_active' = TRUE
    /\ hpc' = [hpc EXCEPT ![h] = "idle"]
    /\ out' = {Ev("playback_started", 0)}
    /\ UNCHANGED <<processor, playback_thread, playback_index, playback_speed,
                   udp_socket, pending_seek>>
    /\ UNCHANGED locals
    /\ UNCHANGED aux

\* ---------------------------------------------------------- pause_playback
\* mutant of Pause: the cursor rewound on pause
Pause_ResetsCursor ==
    /\ playback_active' = FALSE
    /\ playback_index' = 0
    /\ out' = {Ev("playback_paused", 0)}
    /\ pending_seek' = None
    /\ UNCHANGED <<processor, playback_thread, playback_speed, udp_socket, hpc>>
    /\ UNCHANGED locals
    /\ UNCHANGED aux

\* lines 595-600
Pause ==
    /\ playback_active' = FALSE
    /\ out' = {Ev("playback_paused", 0)}
    /\ pending_seek' = None
    /\ UNCHANGED <<processor, playback_thread, playback_index, playback_speed,
                   udp_socket, hpc>>
    /\ UNCHANGED locals
    /\ UNCHANGED aux

\* --------------------------------------------------------------- set_speed
\* lines 603-611
SetSpeed(speed) ==
    /\ playback_speed' = CapSpeed(Get(speed, SET_SPEED_DEFAULT))
    /\ out' = {Ev("speed_changed", playback_speed')}
              \cup CapLog(Get(speed, SET_SPEED_DEFAULT))
    /\ pending_seek' = None
    /\ UNCHANGED <<processor, playback_thread, playback_active, playback_index,
                   udp_socket, hpc>>
    /\ UNCHANGED locals
    /\ UNCHANGED aux

\* -------------------------------------------------------------------- seek
\* lines 614-620
Seek(index) ==
    /\ playback_index' = Get(index, SEEK_DEFAULT_INDEX)
    /\ out' = {Ev("seeked", playback_index')}
    /\ pending_seek' = IF playback_active THEN Some(playback_index') ELSE None
    /\ UNCHANGED <<processor, playback_thread, playback_active, playback_speed,
                   udp_socket, hpc>>
    /\ UNCHANGED locals
    /\ jump_request' = Superseded(jump_request)
    /\ UNCHANGED served

\* ----------------------------------------------------------- playback_loop
\* Steps of one loop thread.  A step ends after each access to a global another
\* thread writes and the tick depends on: the running check with the bounds check
\* (635-647), the write of playback_active (648), the finished emit and thread exit
\* (652-653), the sample fetch (656) with the pacing block and the unconditional
\* emits that follow it (660-759), the second running check (763), the increment
\* with the sleep (784-788).

\* mutant of LoopWhile: the paused loop leaves the while loop
LoopWhile_PausedBreaks(t) ==
    /\ pc[t] = "while"
    /\ pc' = [pc EXCEPT ![t] =
                IF ~playback_active THEN "dead"
                ELSE IF processor = None THEN "dead"
                ELSE IF AtEnd(Val(processor), playback_index)
                     THEN "finish" ELSE "fetch"]
    /\ out' = {}
    /\ UNCHANGED <<globals, hpc, pending_seek, last_timestamp, data, sleep_time,
                   udp_failed>>
    /\ count_store' = [count_store EXCEPT ![t] =
                         IF pc'[t] = "fetch" THEN processor ELSE None]
    /\ UNCHANGED aux

\* lines 635-647.  Paused: sleep 0.1 s and poll again.  processor is None: break.
\* playback_index >= count: go on to the Finished transition.
LoopWhile(t) ==
    /\ pc[t] = "while"
    /\ pc' = [pc EXCEPT ![t] =
                IF ~playback_active THEN "while"
                ELSE IF processor = None THEN "dead"
                ELSE IF AtEnd(Val(processor), playback_index)
                     THEN "finish" ELSE "fetch"]
    /\ out' = {}
    /\ UNCHANGED <<globals, hpc, pending_seek, last_timestamp, data, sleep_time,
                   udp_failed>>
    /\ count_store' = [count_store EXCEPT ![t] =
                         IF pc'[t] = "fetch" THEN processor ELSE None]
    /\ UNCHANGED aux

\* line 648
LoopFinishFlag(t) ==
    /\ pc[t] = "finish"
    /\ playback_active' = FALSE
    /\ pc' = [pc EXCEPT ![t] = "finished"]
    /\ out' = {}
    /\ UNCHANGED <<processor, playback_thread, playback_index, playback_speed,
                   udp_socket, hpc, pending_seek, last_timestamp, data, sleep_time,
                   udp_failed, count_store>>
    /\ UNCHANGED aux

\* lines 652-653: emit playback_finished, break; the thread ends
LoopFinishEmit(t) ==
    /\ pc[t] = "finished"
    /\ pc' = [pc EXCEPT ![t] = "dead"]
    /\ out' = {Ev("playback_finished", 0)}
    /\ UNCHANGED <<globals, hpc, pending_seek, last_timestamp, data, sleep_time,
                   udp_failed>>
    /\ UNCHANGED count_store
    /\ UNCHANGED aux

\* mutant of LoopFetch: no except clause around the sendto of line 756, the
\* exception ends the thread
LoopFetch_UdpRaises(t, udp_ok) ==
    /\ pc[t] = "fetch"
    /\ LET d == get_data_at_index(Val(processor), playback_index) IN
       IF Raises(d, playback_speed)
       THEN /\ pc' = [pc EXCEPT ![t] = "crashed"]
            /\ last_timestamp' = [last_timestamp EXCEPT ![t] = None]
            /\ udp_ok
            /\ out' = {}
            /\ UNCHANGED <<data, sleep_time, udp_failed>>
       ELSE /\ sleep_time' = [sleep_time EXCEPT ![t] =
                                SleepTime(last_timestamp[t], d, playback_speed)]
            /\ last_timestamp' = [last_timestamp EXCEPT ![t] =
                                    NextLastTimestamp(last_timestamp[t], d)]
            /\ data' = [data EXCEPT ![t] = d]
            /\ IF d = None
               THEN /\ pc' = [pc EXCEPT ![t] = "advance"]
                    /\ udp_ok
                    /\ out' = {}
                    /\ UNCHANGED udp_failed
               ELSE /\ pc' = [pc EXCEPT ![t] =
                                IF udp_socket /\ ~udp_ok THEN "crashed" ELSE "duplex"]
                    /\ out' = {Ev("frame_update", Val(d).index)}
                              \cup (IF udp_socket
                                    THEN {Ev("udp_sendto", Val(d).index)} ELSE {})
                              \cup (IF udp_socket /\ ~udp_ok
                                    THEN {Ev("udp_error", Val(d).index)} ELSE {})
                    /\ udp_failed' = [udp_failed EXCEPT ![t] = udp_socket /\ ~udp_ok]
    /\ pending_seek' = None
    /\ count_store' = [count_store EXCEPT ![t] = None]
    /\ UNCHANGED <<globals, hpc>>
    /\ UNCHANGED aux

\* lines 656-759: fetch the sample at playback_index, compute sleep_time from
\* playback_speed, then (if data) the UI broadcast and the UDP datagram; a failing
\* sendto (udp_ok false) is swallowed by the except clause.  An exception in the
\* pacing block ends the thread: the loop has no handler for it.
LoopFetch(t, udp_ok) ==
    /\ pc[t] = "fetch"
    /\ LET d == get_data_at_index(Val(processor), playback_index) IN
       IF Raises(d, playback_speed)
       THEN /\ pc' = [pc EXCEPT ![t] = "crashed"]
            /\ last_timestamp' = [last_timestamp EXCEPT ![t] = None]
            /\ udp_ok
            /\ out' = {}
            /\ UNCHANGED <<data, sleep_time, udp_failed>>
       ELSE /\ sleep_time' = [sleep_time EXCEPT ![t] =
                                SleepTime(last_timestamp[t], d, playback_speed)]
            /\ last_timestamp' = [last_timestamp EXCEPT ![t] =
                                    NextLastTimestamp(last_timestamp[t], d)]
            /\ data' = [data EXCEPT ![t] = d]
            /\ IF d = None
               THEN /\ pc' = [pc EXCEPT ![t] = "advance"]
                    /\ udp_ok
                    /\ out' = {}
                    /\ UNCHANGED udp_failed
               ELSE /\ pc' = [pc EXCEPT ![t] = "duplex"]
                    /\ out' = {Ev("frame_update", Val(d).index)}
                              \cup (IF udp_socket
                                    THEN {Ev("udp_sendto", Val(d).index)} ELSE {})
                              \cup (IF udp_socket /\ ~udp_ok
                                    THEN {Ev("udp_error", Val(d).index)} ELSE {})
                    /\ udp_failed' = [udp_failed EXCEPT ![t] = udp_socket /\ ~udp_ok]
    /\ pending_seek' = None
    /\ count_store' = [count_store EXCEPT ![t] = None]
    /\ UNCHANGED <<globals, hpc>>
    /\ UNCHANGED aux

\* mutant of LoopDuplex: the second running check left out
LoopDuplex_Unconditional(t) ==
    /\ pc[t] = "duplex"
    /\ out' = {Ev("godot_data", Val(data[t]).index)}
    /\ pc' = [pc EXCEPT ![t] = "advance"]
    /\ UNCHANGED <<globals, hpc, pending_seek, last_timestamp, data, sleep_time,
                   udp_failed>>
    /\ UNCHANGED count_store
    /\ UNCHANGED aux

\* lines 763-776
LoopDuplex(t) ==
    /\ pc[t] = "duplex"
    /\ out' = IF playback_active THEN {Ev("godot_data", Val(data[t]).index)} ELSE {}
    /\ pc' = [pc EXCEPT ![t] = "advance"]
    /\ UNCHANGED <<globals, hpc, pending_seek, last_timestamp, data, sleep_time,
                   udp_failed>>
    /\ UNCHANGED count_store
    /\ UNCHANGED aux

\* lines 784-788: playback_index += 1, then time.sleep(sleep_time), which raises
\* ValueError on a negative argument
LoopAdvance(t) ==
    /\ pc[t] = "advance"
    /\ playback_index' = playback_index + 1
    /\ IF sleep_time[t] < 0
       THEN /\ pc' = [pc EXCEPT ![t] = "crashed"]
            /\ last_timestamp' = [last_timestamp EXCEPT ![t] = None]
       ELSE /\ pc' = [pc EXCEPT ![t] = "while"]
            /\ UNCHANGED last_timestamp
    /\ data' = [data EXCEPT ![t] = None]
    /\ sleep_time' = [sleep_time EXCEPT ![t] = 0]
    /\ udp_failed' = [udp_failed EXCEPT ![t] = FALSE]
    /\ UNCHANGED count_store
    /\ out' = {}
    /\ UNCHANGED <<processor, playback_thread, playback_active, playback_speed,
                   udp_socket, hpc, pending_seek>>
    /\ UNCHANGED aux

\* ------------------------------------------------------------------- next
\* The loop threads' steps, the same under both specifications
LoopStep ==
    \/ \E t \in Threads : LoopWhile(t)
    \/ \E t \in Threads : LoopFinishFlag(t)
    \/ \E t \in Threads : LoopFinishEmit(t)
    \/ \E t \in Threads, udp_ok \in BOOLEAN : LoopFetch(t, udp_ok)
    \/ \E t \in Threads : LoopDuplex(t)
    \/ \E t \in Threads : LoopAdvance(t)

\* Spec: every request with every argument, against the loop thread at every
\* position; the start_playback handler runs one request at a time.
Next ==
    \/ \E s \in Stores : InitStore(s)
    \/ StartUninitialized
    \/ \E h \in SerialHandlers, index \in IndexArgs, speed \in SpeedArgs :
          StartBegin(h, index, speed)
    \/ \E h \in SerialHandlers : StartCheckThread(h)
    \/ \E h \in SerialHandlers, t \in Threads : StartCreateThread(h, t)
    \/ \E h \in SerialHandlers : StartResume(h)
    \/ Pause
    \/ \E speed \in SpeedArgs : SetSpeed(speed)
    \/ \E index \in IndexArgs : Seek(index)
    \/ LoopStep

Spec == Init /\ [][Next]_vars

\* SpecRace: start_playback requests served concurrently (async_mode "threading":
\* one OS thread per event), with fewer distinct arguments.
NextRace ==
    \/ \E s \in Stores : InitStore(s)
    \/ \E h \in Handlers, index \in RaceIndexArgs, speed \in RaceSpeedArgs :
          StartBegin(h, index, speed)
    \/ \E h \in Handlers : StartCheckThread(h)
    \/ \E h \in Handlers, t \in Threads : StartCreateThread(h, t)
    \/ \E h \in Handlers : StartResume(h)
    \/ Pause
    \/ LoopStep

SpecRace == Init /\ [][NextRace]_vars

\* ------------------------------------------------------------- SpecIndex
\* A call processor.find_index_for_timestamp(timestamp_seconds) by one of the
\* routes (app.py 357, 404, 423), each of which first tests processor is None.
FindIndex(timestamp_seconds) ==
    /\ processor # None
    /\ lookup' = Some([timestamp_seconds |-> timestamp_seconds,
                       index |-> find_index_for_timestamp(Val(processor),
                                                          timestamp_seconds)])
    /\ out' = {}
    /\ UNCHANGED <<globals, hpc, pending_seek>>
    /\ UNCHANGED locals
    /\ UNCHANGED <<map_file, video_timestamp_mapper, conversion, web>>

\* SpecIndex: every store /api/init can install, looked up at every target.
NextIndex ==
    \/ \E s \in LookupStores : InitStore(s)
    \/ \E timestamp_seconds \in Targets : FindIndex(timestamp_seconds)

SpecIndex == Init /\ [][NextIndex]_vars

\* ------------------------------------------------------------ SpecMapper
\* line 120 (or 136) of app.py: the mapper object is built once, at import
CreateMapper ==
    /\ video_timestamp_mapper = None
    /\ video_timestamp_mapper' = Some(VideoTimestampMapper(map_file))
    /\ out' = {}
    /\ UNCHANGED <<globals, hpc, pending_seek>>
    /\ UNCHANGED locals
    /\ UNCHANGED <<lookup, map_file, conversion, web>>

\* a call video_timestamp_mapper.data_to_video_time(data_timestamp)
DataToVideoTime(data_timestamp) ==
    /\ video_timestamp_mapper # None
    /\ conversion' = Some([op |-> "data_to_video_time", arg |-> data_timestamp,
                           result |-> data_to_video_time(Val(video_timestamp_mapper),
                                                         data_timestamp)])
    /\ out' = {}
    /\ UNCHANGED <<globals, hpc, pending_seek>>
    /\ UNCHANGED locals
    /\ UNCHANGED <<lookup, map_file, video_timestamp_mapper, web>>

\* a call video_timestamp_mapper.video_to_data_time(video_time)
VideoToDataTime(video_time) ==
    /\ video_timestamp_mapper # None
    /\ conversion' = Some([op |-> "video_to_data_time", arg |-> video_time,
                           result |-> video_to_data_time(Val(video_timestamp_mapper),
                                                         video_time)])
    /\ out' = {}
    /\ UNCHANGED <<globals, hpc, pending_seek>>
    /\ UNCHANGED locals
    /\ UNCHANGED <<lookup, map_file, video_timestamp_mapper, web>>

\* SpecMapper: a mapper built from any mapping file and queried at every time.
InitMapper ==
    /\ InitPlayback
    /\ map_file \in MapFiles /\ video_timestamp_mapper = None
    /\ YOUTUBE_START_OFFSET = 0

NextMapper ==
    \/ CreateMapper
    \/ \E data_timestamp \in QueryTimes : DataToVideoTime(data_timestamp)
    \/ \E video_time \in QueryTimes : VideoToDataTime(video_time)

SpecMapper == InitMapper /\ [][NextMapper]_vars

\* ------------------------------------------------------------ SpecRoutes
\* lines 111-146 of app.py: the global stays None when no mapping file exists,
\* else it is the object built from the file found (one file is modelled: the
\* other candidate paths do not exist)
ImportMapper(file) ==
    IF file.kind = "missing" THEN None ELSE Some(VideoTimestampMapper(file))

\* lines 308, 321, 347: video_timestamp_mapper and video_timestamp_mapper.is_available()
MapperUsable(m) == m # None /\ is_available(Val(m))

\* mutant of OffsetVideoTime: the difference returned as it is
OffsetVideoTime_NoClamp(data_timestamp, offset) ==
    FSub(Rat(data_timestamp, 1), Rat(offset, 1))

\* line 314: max(0, data_timestamp - YOUTUBE_START_OFFSET)
OffsetVideoTime(data_timestamp, offset) ==
    LET d == FSub(Rat(data_timestamp, 1), Rat(offset, 1))
    IN IF d.num > 0 THEN d ELSE Rat(0, 1)

\* line 327: video_time + YOUTUBE_START_OFFSET
OffsetDataTimestamp(video_time, offset) ==
    FAdd(Rat(video_time, 1), Rat(offset, 1))

\* HTTP responses: jsonify(...) with status 200 and the time it carries, or the
\* 500 Flask answers when the view raises
OkTime(value, using_offset) ==
    [status |-> 200, value |-> value, using_offset |-> using_offset]
ServerError == [status |-> 500, value |-> Rat(0, 1), using_offset |-> FALSE]

\* lines 308-315 and 321-328, given what the mapper call returned (RNone when
\* the mapper was not called)
TimeResponse(result, fallback) ==
    IF result.kind = "raised" THEN ServerError
    ELSE IF result.kind = "value" THEN OkTime(Rat(result.num, result.den), FALSE)
    ELSE OkTime(fallback, TRUE)

\* GET /api/video-time/<data_timestamp>
GetVideoTime(data_timestamp) ==
    LET called == MapperUsable(video_timestamp_mapper)
        video_time ==
            IF called
            THEN data_to_video_time(Val(video_timestamp_mapper), data_timestamp)
            ELSE RNone
    IN /\ conversion' =
            IF called
            THEN Some([op |-> "data_to_video_time", arg |-> data_timestamp,
                       result |-> video_time])
            ELSE conversion
       /\ reply' = Some([route |-> "get_video_time", arg |-> data_timestamp,
                         response |->
                            TimeResponse(video_time,
                                OffsetVideoTime(data_timestamp,
                                                YOUTUBE_START_OFFSET))])
       /\ out' = {}
       /\ UNCHANGED <<globals, hpc, pending_seek>>
       /\ UNCHANGED locals
       /\ UNCHANGED <<lookup, map_file, video_timestamp_mapper,
                      jump_request, YOUTUBE_START_OFFSET,
                   video_request>>

\* GET /api/data-timestamp/<video_time>
GetDataTimestamp(video_time) ==
    LET called == MapperUsable(video_timestamp_mapper)
        data_timestamp ==
            IF called
            THEN video_to_data_time(Val(video_timestamp_mapper), video_time)
            ELSE RNone
    IN /\ conversion' =
            IF called
            THEN Some([op |-> "video_to_data_time", arg |-> video_time,
                       result |-> data_timestamp])
            ELSE conversion
       /\ reply' = Some([route |-> "get_data_timestamp", arg |-> video_time,
                         response |->
                            TimeResponse(data_timestamp,
                                OffsetDataTimestamp(video_time,
                                                    YOUTUBE_START_OFFSET))])
       /\ out' = {}
       /\ UNCHANGED <<globals, hpc, pending_seek>>
       /\ UNCHANGED locals
       /\ UNCHANGED <<lookup, map_file, video_timestamp_mapper,
                      jump_request, YOUTUBE_START_OFFSET,
                   video_request>>

\* Times in the URL of the two routes (the float and int converters of lines
\* 301-302 and 318 take no sign) and offsets in the environment.
RouteTimes == 0..2
Offsets == {0, 2}

\* SpecRoutes: the server imported with any mapping file and any offset, the
\* two conversion routes called with every time.
InitRoutes ==
    /\ InitPlayback
    /\ map_file \in MapFiles
    /\ video_timestamp_mapper = ImportMapper(map_file)
    /\ YOUTUBE_START_OFFSET \in Offsets

NextRoutes ==
    \/ \E data_timestamp \in RouteTimes : GetVideoTime(data_timestamp)
    \/ \E video_time \in RouteTimes : GetDataTimestamp(video_time)

SpecRoutes == InitRoutes /\ [][NextRoutes]_vars

\* -------------------------------------------------------------- SpecLoad
\* The 'timestamp' cell of a raw row, as text of the CSV file:
\*   duration  a duration text, "0 days 00:00:0v" (v seconds)
\*   integer   a bare whole number, "v"
\*   decimal   a bare number with a fraction, "v.5"
\*   text      anything else, the empty cell included
DurationCell(v) == [kind |-> "duration", v |-> v]
IntegerCell(v) == [kind |-> "integer", v |-> v]
DecimalCell(v) == [kind |-> "decimal", v |-> v]
TextCell == [kind |-> "text", v |-> 0]
Cells ==
    {DurationCell(v) : v \in {1, 2}} \cup {IntegerCell(v) : v \in {1, 2}}
    \cup {DecimalCell(v) : v \in {0, 1}} \cup {TextCell}

\* A raw source: no readable CSV file; a CSV file without 'timestamp' column;
\* or a CSV file with its 'timestamp' cells in row order, columns_ok telling
\* whether the columns read by get_data_at_index, get_all_path_data and
\* get_all_attitude_data are there.
NoSource == [kind |-> "unreadable", columns_ok |-> FALSE, rows |-> <<>>]
NoTimestampColumn == [kind |-> "no_timestamp", columns_ok |-> FALSE, rows |-> <<>>]
CsvSource(columns_ok, rows) == [kind |-> "csv", columns_ok |-> columns_ok, rows |-> rows]
RawSources ==
    {NoSource, NoTimestampColumn}
    \cup {CsvSource(c, r) : c \in BOOLEAN, r \in SeqsUpTo(Cells, MaxRawRows)}

NsPerSecond == 1000000000

\* pd.read_csv (line 31) gives the column a numeric dtype when every cell is a
\* number or empty, else it keeps every cell as text
NumericColumn(rows) ==
    \A i \in 1..Len(rows) : rows[i].kind \in {"integer", "decimal"}

\* pd.to_timedelta(cell, errors='coerce') of line 34: nanoseconds, None for NaT.
\* A number of a numeric column is a count of nanoseconds, its fraction cut;
\* of the texts, a duration and a whole number (of nanoseconds) parse, a number
\* with a fraction has no unit and does not.
to_timedelta(cell, numeric) ==
    IF cell.kind = "duration" THEN Some(cell.v * NsPerSecond)
    ELSE IF cell.kind = "integer" THEN Some(cell.v)
    ELSE IF cell.kind = "decimal" /\ numeric THEN Some(cell.v)
    ELSE None

\* pd.to_numeric(cell, errors='coerce') of line 37, in half seconds; None for NaN
to_numeric(cell) ==
    IF cell.kind = "integer" THEN Some(2 * cell.v)
    ELSE IF cell.kind = "decimal" THEN Some(2 * cell.v + 1)
    ELSE None

\* pd.to_timedelta(sec, unit='s', errors='coerce') of line 38
to_timedelta_s(sec) ==
    IF sec = None THEN None ELSE Some(Val(sec) * (NsPerSecond \div 2))

\* lines 34-38: the parsed column
ParseColumn(rows) ==
    LET ts_as_td == [i \in 1..Len(rows) |-> to_timedelta(rows[i], NumericColumn(rows))]
    IN IF \A i \in 1..Len(rows) : ts_as_td[i] = None
       THEN [i \in 1..Len(rows) |-> to_timedelta_s(to_numeric(rows[i]))]
       ELSE ts_as_td

\* lines 40-49: dropna keeps the rows with a timestamp, in the order of the file
load_data(rows) ==
    LET kept == SelectSeq(ParseColumn(rows), LAMBDA ts : ts # None)
    IN [i \in 1..Len(kept) |-> Val(kept[i])]

\* FlightDataProcessor(DATA_FILE) raises: read_csv fails (line 31) or the
\* column 'timestamp' is not there (line 34)
LoadRaises(source) == source.kind # "csv"

\* lines 201-268 raise: a store with rows and a column missing from them
SummaryRaises(source) ==
    /\ Len(load_data(source.rows)) > 0
    /\ ~source.columns_ok

\* GET /api/init with the raw source found at DATA_FILE
InitFrom(source) ==
    /\ processor' = IF LoadRaises(source) THEN processor
                    ELSE Some(load_data(source.rows))
    /\ reply' = Some([route |-> "init", source |-> source,
                      response |->
                         IF LoadRaises(source) \/ SummaryRaises(source)
                         THEN [status |-> 500, data_count |-> 0]
                         ELSE [status |-> 200,
                               data_count |-> Len(load_data(source.rows))]])
    /\ out' = (IF LoadRaises(source) \/ SummaryRaises(source) THEN {}
               ELSE {Ev("init_ok", Len(load_data(source.rows)))})
    /\ pending_seek' = None
    /\ lookup' = None
    /\ UNCHANGED <<playback_thread, playback_active, playback_index,
                   playback_speed, udp_socket, hpc>>
    /\ UNCHANGED locals
    /\ UNCHANGED <<map_file, video_timestamp_mapper, conversion,
                   jump_request, YOUTUBE_START_OFFSET,
                   video_request>>

NextLoad == \E source \in RawSources : InitFrom(source)

SpecLoad == Init /\ [][NextLoad]_vars

\* -------------------------------------------------------------- SpecPath
\* range(a, b) as the sequence a, a + 1, .., b - 1
Range(a, b) == [k \in 1..(IF b > a THEN b - a ELSE 0) |-> a + k - 1]

\* lines 491-493: the path point of index i, its position read from the sample
PathPoint(p, i) ==
    [index |-> i, timestamp |-> Val(get_data_at_index(p, i)).timestamp]

\* mutant of get_path_data: the loop stops one index early
get_path_data_StopsEarly(p, start_index, end_index) ==
    LET end == IF end_index - start_index > max_range
               THEN start_index + max_range ELSE end_index
        visited == Range(start_index, Min(end, get_data_count(p)))
        kept == SelectSeq(visited, LAMBDA i : get_data_at_index(p, i) # None)
    IN [status |-> 200,
        path |-> [k \in 1..Len(kept) |-> PathPoint(p, kept[k])],
        start_index |-> start_index,
        end_index |-> Min(end, get_data_count(p) - 1)]

\* lines 482-502 of get_path_data
get_path_data(p, start_index, end_index) ==
    LET end == IF end_index - start_index > max_range
               THEN start_index + max_range ELSE end_index
        visited == Range(start_index, Min(end + 1, get_data_count(p)))
        kept == SelectSeq(visited, LAMBDA i : get_data_at_index(p, i) # None)
    IN [status |-> 200,
        path |-> [k \in 1..Len(kept) |-> PathPoint(p, kept[k])],
        start_index |-> start_index,
        end_index |-> Min(end, get_data_count(p) - 1)]

\* GET /api/path/<start_index>/<end_index>
GetPathData(start_index, end_index) ==
    /\ reply' = Some([route |-> "get_path_data",
                      start_index |-> start_index, end_index |-> end_index,
                      response |->
                         IF processor = None THEN [status |-> 400]
                         ELSE get_path_data(Val(processor), start_index, end_index)])
    /\ out' = {}
    /\ UNCHANGED <<globals, hpc, pending_seek>>
    /\ UNCHANGED locals
    /\ UNCHANGED <<lookup, map_file, video_timestamp_mapper, conversion,
                   jump_request, YOUTUBE_START_OFFSET,
                   video_request>>

\* A call processor.get_data_at_index(index) answered as GET /api/data/<index>
\* answers it (lines 466-473).  The int converter of the route takes no sign; a
\* negative index reaches the method from seek, through line 656 of the loop.
GetDataAtIndex(index) ==
    /\ reply' = Some([route |-> "get_data_at_index", index |-> index,
                      response |->
                         IF processor = None THEN [status |-> 400]
                         ELSE IF get_data_at_index(Val(processor), index) = None
                         THEN [status |-> 404]
                         ELSE [status |-> 200,
                               data |-> Val(get_data_at_index(Val(processor), index))]])
    /\ out' = {}
    /\ UNCHANGED <<globals, hpc, pending_seek>>
    /\ UNCHANGED locals
    /\ UNCHANGED <<lookup, map_file, video_timestamp_mapper, conversion,
                   jump_request, YOUTUBE_START_OFFSET,
                   video_request>>

\* Stores of n rows, 2 microseconds apart; the sizes around max_range, and the
\* indices the route is called with (the int converter of line 476 takes no sign)
LongStore(n) == [i \in 1..n |-> 2 * (i - 1)]
PathStores == {LongStore(n) : n \in {0, 3, max_range, max_range + 1, max_range + 2}}
PathStarts == {0, 1, 2, 5}
PathEnds ==
    {0, 1, 2, 3, max_range, max_range + 1, max_range + 2, 2 * max_range}
SampleIndices == -2..(max_range + 3)

NextPath ==
    \/ \E s \in PathStores : InitStore(s)
    \/ \E start_index \in PathStarts, end_index \in PathEnds :
          GetPathData(start_index, end_index)
    \/ \E index \in SampleIndices : GetDataAtIndex(index)

SpecPath == Init /\ [][NextPath]_vars

\* -------------------------------------------------------------- SpecSwap
\* GET /api/data-for-video-time/<video_time> (lines 331-395) reads the global
\* processor three times, at 342, 357 and 371, and holds no lock: it is modelled
\* as three steps, between which /api/init (line 200) can rebind the global.
\* The playback loop reads it at 647 and again at 656 (LoopWhile, LoopFetch).

\* timestamps of a store walked by the playback loop are in microseconds
UsPerSecond == 1000000

\* the float of seconds handed to find_index_for_timestamp, in the store's unit
SecondsTarget(q) == [ns |-> (q.num * UsPerSecond) \div q.den, sub |-> 0]

VideoReply(video_time, response) ==
    Some([route |-> "get_data_for_video_time", arg |-> video_time,
          response |-> response])

\* lines 342-354: the test processor is None, then the conversion of the
\* video time; an exception of the mapper is answered by lines 390-395
VideoBegin(video_time) ==
    /\ video_request = None
    /\ LET called == processor # None /\ MapperUsable(video_timestamp_mapper)
           mapped == IF called
                     THEN video_to_data_time(Val(video_timestamp_mapper), video_time)
                     ELSE RNone
           data_timestamp ==
               IF mapped.kind = "value" THEN Rat(mapped.num, mapped.den)
               ELSE OffsetDataTimestamp(video_time, YOUTUBE_START_OFFSET)
       IN /\ conversion' =
               IF called
               THEN Some([op |-> "video_to_data_time", arg |-> video_time,
                          result |-> mapped])
               ELSE conversion
          /\ IF processor = None
             THEN /\ reply' = VideoReply(video_time, [status |-> 400])
                  /\ video_request' = None
             ELSE IF mapped.kind = "raised"
             THEN /\ reply' = VideoReply(video_time, [status |-> 500])
                  /\ video_request' = None
             ELSE /\ video_request' =
                        Some([pc |-> "find", video_time |-> video_time,
                              data_timestamp |-> data_timestamp,
                              index |-> 0, index_store |-> None])
                  /\ UNCHANGED reply
    /\ out' = {}
    /\ UNCHANGED <<globals, hpc, pending_seek>>
    /\ UNCHANGED locals
    /\ UNCHANGED <<lookup, map_file, video_timestamp_mapper,
                      jump_request, YOUTUBE_START_OFFSET>>

\* lines 357-368: index = processor.find_index_for_timestamp(data_timestamp);
\* index_store is history, the processor this call was made on
VideoFind ==
    /\ video_request # None
    /\ Val(video_request).pc = "find"
    /\ LET r == Val(video_request)
           index == find_index_for_timestamp(Val(processor),
                                             SecondsTarget(r.data_timestamp))
       IN IF index = None
          THEN /\ reply' = VideoReply(r.video_time,
                                      [status |-> 200, success |-> FALSE])
               /\ video_request' = None
          ELSE /\ video_request' =
                     Some([r EXCEPT !.pc = "fetch", !.index = Val(index),
                                    !.index_store = processor])
               /\ UNCHANGED reply
    /\ out' = {}
    /\ UNCHANGED <<globals, hpc, pending_seek>>
    /\ UNCHANGED locals
    /\ UNCHANGED <<lookup, map_file, video_timestamp_mapper, conversion,
                   jump_request, YOUTUBE_START_OFFSET>>

\* lines 371-389: data = processor.get_data_at_index(index), and the response
VideoFetch ==
    /\ video_request # None
    /\ Val(video_request).pc = "fetch"
    /\ LET r == Val(video_request)
           d == get_data_at_index(Val(processor), r.index)
       IN reply' = VideoReply(r.video_time,
                      IF d = None THEN [status |-> 404]
                      ELSE [status |-> 200, success |-> TRUE, data |-> Val(d),
                            index |-> r.index,
                            data_timestamp |-> r.data_timestamp])
    /\ video_request' = None
    /\ out' = {}
    /\ UNCHANGED <<globals, hpc, pending_seek>>
    /\ UNCHANGED locals
    /\ UNCHANGED <<lookup, map_file, video_timestamp_mapper, conversion,
                   jump_request, YOUTUBE_START_OFFSET>>

\* Two recordings /api/init can install one after the other, and the video
\* times asked for, in seconds.
SwapStoreA == <<0, 1000000, 2000000>>
SwapStoreB == <<1000000, 2000000>>
SwapStores == {SwapStoreA, SwapStoreB}
VideoTimes == 0..2

\* SpecSwap: /api/init, the video-time route and the playback loop, every step
\* of each interleaved with every step of the others.
NextSwap ==
    \/ \E s \in SwapStores : InitStore(s)
    \/ \E h \in SerialHandlers : StartBegin(h, NoArg, NoArg)
    \/ \E h \in SerialHandlers : StartCheckThread(h)
    \/ \E h \in SerialHandlers, t \in Threads : StartCreateThread(h, t)
    \/ \E h \in SerialHandlers : StartResume(h)
    \/ LoopStep
    \/ \E video_time \in VideoTimes : VideoBegin(video_time)
    \/ VideoFind
    \/ VideoFetch

SpecSwap == Init /\ [][NextSwap]_vars

\* -------------------------------------------------------------- SpecStart
\* start_playback with every index, the speed left at its default, against the
\* loop thread: no other request moves the cursor or clears playback_active.
HandlerStep ==
    \/ \E h \in SerialHandlers : StartCheckThread(h)
    \/ \E h \in SerialHandlers, t \in Threads : StartCreateThread(h, t)
    \/ \E h \in SerialHandlers : StartResume(h)

NextStart ==
    \/ \E s \in Stores : InitStore(s)
    \/ \E h \in SerialHandlers, index \in IndexArgs : StartBegin(h, index, NoArg)
    \/ HandlerStep
    \/ LoopStep

SpecStart == Init /\ [][NextStart]_vars

\* SpecLive: SpecStart with the scheduling the threads get from the OS: a handler
\* that has begun runs to its end, a loop thread that can take a step takes it.
SpecLive ==
    Init /\ [][NextStart]_vars /\ WF_vars(HandlerStep) /\ WF_vars(LoopStep)

\* -------------------------------------------------------------- SpecJump
\* GET /api/jump/<timestamp_id> (lines 411-434).  The markers of lines 166-180,
\* in seconds: two of them here, the first sample and the one 10 s in.
TIMESTAMPS == [timestamp_id \in {0, 1} |-> IF timestamp_id = 0 THEN 0 ELSE 10]

JumpReply(timestamp_id, response) ==
    Some([route |-> "jump_to_timestamp", arg |-> timestamp_id, response |-> response])

\* lines 416-430: the two tests, the lookup and `playback_index = index`
JumpBegin(timestamp_id) ==
    /\ IF jump_request = None THEN TRUE ELSE Val(jump_request).pc = "done"
    /\ LET index ==
             find_index_for_timestamp(Val(processor),
                  SecondsTarget(Rat(TIMESTAMPS[timestamp_id], 1)))
       IN IF timestamp_id \notin DOMAIN TIMESTAMPS \/ processor = None
          THEN /\ reply' = JumpReply(timestamp_id, [status |-> 400])
               /\ UNCHANGED <<playback_index, jump_request>>
          ELSE IF index = None
          THEN /\ reply' = JumpReply(timestamp_id, [status |-> 404])
               /\ UNCHANGED <<playback_index, jump_request>>
          ELSE /\ playback_index' = Val(index)
               /\ jump_request' =
                     Some([timestamp_id |-> timestamp_id, index |-> Val(index),
                           pc |-> "pause", superseded |-> FALSE])
               /\ UNCHANGED reply
    /\ out' = {}
    /\ UNCHANGED <<processor, playback_thread, playback_active, playback_speed,
                   udp_socket, hpc, pending_seek>>
    /\ UNCHANGED locals
    /\ UNCHANGED <<lookup, map_file, video_timestamp_mapper, conversion,
                   YOUTUBE_START_OFFSET, video_request>>

\* lines 431-434: `playback_active = False` and the response
JumpPause ==
    /\ jump_request # None
    /\ Val(jump_request).pc = "pause"
    /\ playback_active' = FALSE
    /\ jump_request' = Some([Val(jump_request) EXCEPT !.pc = "done"])
    /\ reply' = JumpReply(Val(jump_request).timestamp_id,
                          [status |-> 200, index |-> Val(jump_request).index])
    /\ out' = {}
    /\ UNCHANGED <<processor, playback_thread, playback_index, playback_speed,
                   udp_socket, hpc, pending_seek>>
    /\ UNCHANGED locals
    /\ UNCHANGED <<lookup, map_file, video_timestamp_mapper, conversion,
                   YOUTUBE_START_OFFSET, video_request>>

\* marker ids in the URL (the int converter of line 411 takes no sign)
JumpIds == 0..2

\* SpecJump: /api/jump against start_playback, seek and the loop thread
NextJump ==
    \/ \E s \in Stores : InitStore(s)
    \/ \E h \in SerialHandlers, index \in RaceIndexArgs : StartBegin(h, index, NoArg)
    \/ HandlerStep
    \/ \E index \in RaceIndexArgs : Seek(index)
    \/ \E timestamp_id \in JumpIds : JumpBegin(timestamp_id)
    \/ JumpPause
    \/ LoopStep

SpecJump == Init /\ [][NextJump]_vars

\* ================================================================= claims
Count == Len(Val(processor))
LiveLoops == {t \in Threads : Alive(t)}
HandlersIdle == \A h \in Handlers : hpc[h] = "idle"

\* C1: in every reachable state at most one playback loop thread is alive, under
\* any interleaving of start_playback requests with each other and with the loop.
C1_AtMostOneLoop == Cardinality(LiveLoops) <= 1

\* C2: once a start_playback request on an initialized store has completed,
\* playback_active = TRUE implies a loop thread is alive to run further ticks
\* (stated for the runs in which no loop thread died of an exception).
C2_RunningHasLoop ==
    (playback_active /\ HandlersIdle /\ \A t \in Threads : pc[t] # "crashed")
        => LiveLoops # {}

\* C3: a tick that finds playback_index >= N emits no sample, sets
\* playback_active to FALSE, emits playback_finished exactly once and ends the
\* loop thread.
C3_FinishedTransition ==
    [][\A t \in Threads :
         /\ (pc[t] = "while" /\ pc'[t] # "while" /\ processor # None
               /\ playback_index >= Count)
              => (pc'[t] = "finish" /\ out' = {})
         /\ (pc[t] = "finish" /\ pc'[t] # "finish")
              => (pc'[t] = "finished" /\ ~playback_active' /\ out' = {})
         /\ (pc[t] = "finished" /\ pc'[t] # "finished")
              => (pc'[t] = "dead" /\ out' = {Ev("playback_finished", 0)}
                    /\ last_timestamp'[t] = last_timestamp[t])
      ]_vars

\* a loop started with the cursor at N has ended: it emitted no sample (its
\* last_timestamp was never set), the notification is out, playback_active is FALSE
C3_Witness ==
    /\ processor # None
    /\ playback_index = Count
    /\ ~playback_active
    /\ out = {Ev("playback_finished", 0)}
    /\ \E t \in Threads : pc[t] = "dead" /\ last_timestamp[t] = None

\* C4: the tick that fetches the target of a seek which moved the cursor away
\* from the sample after the last emitted one, in a loop holding a prior
\* timestamp, sleeps the default delay 10 ms / speed.
C4_SeekIsDiscontinuity ==
    [][\A t \in Threads :
         (/\ pc[t] = "fetch" /\ pc'[t] = "duplex"
          /\ pending_seek = Some(playback_index)
          /\ last_timestamp[t] # None
          /\ playback_index > 0 => last_timestamp[t] # Some(Val(processor)[playback_index])
          /\ playback_speed \in 1..2)
           => sleep_time'[t] = 10000 \div playback_speed
      ]_vars

\* C5: the target k in [0, N) of a seek issued while running stays the cursor
\* until a tick fetches sample k (no other request arriving in between).
C5_SeekNotLost ==
    (processor # None /\ playback_active /\ pending_seek # None
       /\ Val(pending_seek) \in 0..(Count - 1))
        => playback_index = Val(pending_seek)

\* C6: in every reachable state playback_speed lies in (0, 2.0].
C6_SpeedInRange == playback_speed > 0 /\ playback_speed <= 2

\* C7: a start_playback or set_speed request with a speed above 2.0 is carried
\* out with the speed capped: playback_speed = 2.0, no error is emitted; for
\* start_playback playback_active is TRUE, the cursor is the requested index and
\* the handler goes on to the thread check; for set_speed the speed_changed
\* acknowledgement carries 2.0.
IsStartLog(e) == e[1] \in {"log_start_current", "log_start_index"}
C7_CappedNotRejected ==
    Ev("log_speed_capped", 0) \in out =>
        /\ playback_speed = 2
        /\ Ev("error", 0) \notin out
        /\ IF \E e \in out : IsStartLog(e)
           THEN /\ playback_active
                /\ \E h \in Handlers : hpc[h] = "check_thread"
                /\ \A e \in out : e[1] = "log_start_index" => playback_index = e[2]
           ELSE Ev("speed_changed", 2) \in out

\* start_playback {index: 1, speed: 3} has just run
C7_Witness ==
    /\ out = {Ev("log_start_index", 1), Ev("log_speed_capped", 0)}
    /\ playback_index = 1
    /\ playback_active
    /\ playback_speed = 2

\* C8: at a speed s in (0, 2.0] a tick that fetched a sample computes the delay
\* 10 ms / s without a prior timestamp, and otherwise, with D = sample timestamp -
\* last timestamp: 10 ms / s for D < 0 or D > 10 s, 1 ms / s for D = 0, else D / s
\* clamped into [1 ms, 100 ms].
ClaimedDelay(last, ts, s) ==
    IF last = None THEN 10000 \div s
    ELSE LET D == ts - Val(last) IN
         CASE D < 0 -> 10000 \div s
           [] D > 10000000 -> 10000 \div s
           [] D = 0 -> 1000 \div s
           [] OTHER -> IF D \div s < 1000 THEN 1000
                       ELSE IF D \div s > 100000 THEN 100000
                       ELSE D \div s
C8_PacingDelay ==
    [][\A t \in Threads :
         (pc[t] = "fetch" /\ pc'[t] = "duplex" /\ playback_speed \in 1..2)
           => sleep_time'[t] = ClaimedDelay(last_timestamp[t],
                                            Val(processor)[playback_index + 1],
                                            playback_speed)
      ]_vars

\* the tick fetched sample 3 (10 s after sample 2, the last emitted) at speed 1.0
\* and clamped the delay to 100 ms
C8_Witness ==
    \E t \in Threads :
        /\ pc[t] = "duplex"
        /\ Val(data[t]).index = 3
        /\ sleep_time[t] = 100000
        /\ playback_speed = 1
        /\ out = {Ev("frame_update", 3), Ev("udp_sendto", 3)}

\* C9: pause_playback sets playback_active to FALSE and changes nothing else:
\* cursor, speed, every loop's last_timestamp and position (the loop stays alive)
\* are as before; a later start_playback without index keeps the cursor.
C9_PauseFrame ==
    [][/\ Ev("playback_paused", 0) \in out' =>
            /\ ~playback_active'
            /\ playback_index' = playback_index
            /\ playback_speed' = playback_speed
            /\ last_timestamp' = last_timestamp
            /\ pc' = pc
            /\ playback_thread' = playback_thread
       /\ Ev("log_start_current", 0) \in out' => playback_index' = playback_index
      ]_vars

\* a pause arrived while the loop, having emitted a sample, was alive
C9_Witness ==
    /\ out = {Ev("playback_paused", 0)}
    /\ ~playback_active
    /\ playback_index = 2
    /\ \E t \in Threads : Alive(t) /\ last_timestamp[t] # None

\* C10: the duplex (godot_data) payload of a tick is emitted iff playback_active
\* is TRUE when the tick reaches that step; frame_update and the UDP sendto of
\* the tick happen whatever playback_active is.
C10_DuplexOnlyWhileRunning ==
    [][\A t \in Threads :
         /\ (pc[t] = "duplex" /\ pc'[t] # "duplex")
              => /\ playback_active => out' = {Ev("godot_data", Val(data[t]).index)}
                 /\ ~playback_active => out' = {}
         /\ (pc[t] = "fetch" /\ pc'[t] = "duplex")
              => {Ev("frame_update", playback_index), Ev("udp_sendto", playback_index)}
                    \subseteq out'
      ]_vars

\* a tick paused after its running check has passed its duplex step without
\* emitting
C10_Witness ==
    /\ ~playback_active
    /\ out = {}
    /\ \E t \in Threads : pc[t] = "advance" /\ data[t] # None

\* C11: a fault raised inside a tick (the fetch, the pacing computation, an emit)
\* does not end the loop: no loop thread is ever terminated by an exception.
C11_FaultKeepsLoop == \A t \in Threads : pc[t] # "crashed"

C13_UninitializedReportsError ==
    processor = None =>
        \A e \in out : e[1] \notin {"playback_started", "playback_paused", "seeked"}

\* the store under lookup, the target of the last lookup and its result
Ts == Val(processor)
Target == Val(lookup).timestamp_seconds
Found == Val(lookup).index
IsAscending(p) == \A i \in 1..(Len(p) - 1) : p[i] <= p[i + 1]
\* the real time of a target against a whole number n of nanoseconds
Before(t, n) == t.ns < n \/ (t.ns = n /\ t.sub < 0)
After(t, n) == t.ns > n \/ (t.ns = n /\ t.sub > 0)

\* C14: on a store with ascending timestamps, a target exactly halfway between
\* the timestamps of the adjacent samples i and i+1 is answered with i.
C14_TieToEarlier ==
    (processor # None /\ lookup # None /\ IsAscending(Ts)) =>
        \A i \in 1..(Len(Ts) - 1) :
            (/\ Ts[i] < Ts[i + 1]
             /\ Target.sub = 0
             /\ Target.ns - Ts[i] = Ts[i + 1] - Target.ns)
              => Found = Some(i - 1)

\* C15: on every loaded store, duplicates of a timestamp kept as distinct
\* indices, the lookup of the timestamp of index i is answered with i.
C15_ExactHit ==
    (processor # None /\ lookup # None) =>
        \A i \in 1..Len(Ts) :
            (Target.sub = 0 /\ Target.ns = Ts[i]) => Found = Some(i - 1)

\* C16: on a non-empty store with ascending timestamps every lookup is answered
\* with an index in [0, N): 0 for a target before the first timestamp, N-1 for a
\* target after the last.
C16_Clamped ==
    (processor # None /\ lookup # None /\ Len(Ts) > 0 /\ IsAscending(Ts)) =>
        /\ Found # None /\ Val(Found) \in 0..(Len(Ts) - 1)
        /\ Before(Target, Ts[1]) => Found = Some(0)
        /\ After(Target, Ts[Len(Ts)]) => Found = Some(Len(Ts) - 1)

\* the mapper object, the last query made on it, the anchors of a well-formed file
Mapper == Val(video_timestamp_mapper)
Conv == Val(conversion)
IsNumeric(file) ==
    /\ file.kind = "json"
    /\ \A i \in 1..Len(file.entries) : file.entries[i] \in NumEntries \cup WideEntries
AnchorData(i) == Val(map_file.entries[i].data_timestamp)
AnchorVideo(i) == Val(map_file.entries[i].video_time)
\* the result r is the number n; r1 <= r2 for two numbers
Equals(r, n) == r.kind = "value" /\ r.num = n * r.den
Leq(r1, r2) ==
    r1.kind = "value" /\ r2.kind = "value" /\ r1.num * r2.den <= r2.num * r1.den
Least(S) == CHOOSE n \in S : \A m \in S : n <= m

\* C17 as stated: for every table and every anchor pair (a, b) of it, pairs that
\* share a telemetry time or an external time included, data_to_video_time(a)
\* is exactly b and video_to_data_time(b) is exactly a.
C17_AnchorRoundTrip ==
    (video_timestamp_mapper # None /\ conversion # None /\ IsNumeric(map_file)) =>
        \A i \in 1..Len(map_file.entries) :
            /\ (Conv.op = "data_to_video_time" /\ Conv.arg = AnchorData(i))
                 => Equals(Conv.result, AnchorVideo(i))
            /\ (Conv.op = "video_to_data_time" /\ Conv.arg = AnchorVideo(i))
                 => Equals(Conv.result, AnchorData(i))

\* C17 amended: for every table of numbers and every anchor pair (a, b) of it,
\* data_to_video_time(a) is exactly the least external time paired with a and
\* video_to_data_time(b) exactly the least telemetry time paired with b; hence b,
\* respectively a, when no other pair shares a's telemetry time, respectively
\* b's external time.
C17_AnchorLeastPartner ==
    (video_timestamp_mapper # None /\ conversion # None /\ IsNumeric(map_file)) =>
        \A i \in 1..Len(map_file.entries) :
            /\ (Conv.op = "data_to_video_time" /\ Conv.arg = AnchorData(i))
                 => Equals(Conv.result,
                           Least({AnchorVideo(j) : j \in
                                    {k \in 1..Len(map_file.entries) :
                                       AnchorData(k) = AnchorData(i)}}))
            /\ (Conv.op = "video_to_data_time" /\ Conv.arg = AnchorVideo(i))
                 => Equals(Conv.result,
                           Least({AnchorData(j) : j \in
                                    {k \in 1..Len(map_file.entries) :
                                       AnchorVideo(k) = AnchorVideo(i)}}))

\* the table (0, 2), (2, 0), (2, 2) or a shorter one with its last two anchors,
\* queried at telemetry time 2, the time of two anchors: the answer is the
\* lesser of their external times, 0
C17_Witness ==
    /\ video_timestamp_mapper # None /\ conversion # None
    /\ IsNumeric(map_file)
    /\ \E i \in 1..(Len(Mapper.timestamps) - 1) :
         /\ Mapper.timestamps[i] = <<Some(2), Some(0)>>
         /\ Mapper.timestamps[i + 1] = <<Some(2), Some(2)>>
    /\ Conv.op = "data_to_video_time" /\ Conv.arg = 2
    /\ Equals(Conv.result, 0)

\* the anchors in telemetry order have non-decreasing external times
Monotonic(timestamps) ==
    \A i, j \in 1..Len(timestamps) :
        i < j => Val(timestamps[i][2]) <= Val(timestamps[j][2])
InAnchorRange(x) ==
    /\ Val(Mapper.data_timestamps[1]) <= x
    /\ x <= Val(Mapper.data_timestamps[Len(Mapper.data_timestamps)])

\* C18: on a table of monotonic anchors, two data_to_video_time queries at
\* telemetry times x1 <= x2 inside the anchor range are answered with external
\* times y1 <= y2, be the two times in one segment or in different ones.
C18_MonotonicInterpolation ==
    [][(/\ video_timestamp_mapper # None /\ IsNumeric(map_file)
        /\ is_available(Mapper) /\ Monotonic(Mapper.timestamps)
        /\ conversion # None /\ conversion' # None
        /\ Conv.op = "data_to_video_time"
        /\ Val(conversion').op = "data_to_video_time"
        /\ InAnchorRange(Conv.arg) /\ InAnchorRange(Val(conversion').arg)
        /\ Conv.arg <= Val(conversion').arg)
         => Leq(Conv.result, Val(conversion').result)
      ]_vars

\* C19: a mapper built from any file is either fully loaded (is_available, the
\* by-telemetry and the by-video projections both there, with all anchors) or
\* empty (not is_available, no anchor stored in any attribute).
C19_LoadAllOrNothing ==
    video_timestamp_mapper # None =>
        \/ /\ is_available(Mapper)
           /\ Len(Mapper.data_timestamps) = Len(Mapper.timestamps)
           /\ Mapper.timestamps_by_video # None
           /\ Len(Val(Mapper.timestamps_by_video)) = Len(Mapper.timestamps)
        \/ /\ ~is_available(Mapper)
           /\ Mapper.data_timestamps = <<>> /\ Mapper.video_times = <<>>
           /\ Mapper.timestamps_by_video \in {None, Some(<<>>)}

\* C20: a mapper built from a missing file, an unreadable file or a file with an
\* empty list is not available, and every query on it returns None without
\* raising.
C20_UnavailableReturnsNone ==
    (video_timestamp_mapper # None
       /\ (map_file.kind \in {"missing", "unreadable"} \/ map_file.entries = <<>>)) =>
        /\ ~is_available(Mapper)
        /\ conversion # None => Conv.result = RNone

\* the mapper of an unreadable file was asked for a video time
C20_Witness ==
    /\ video_timestamp_mapper # None /\ conversion # None
    /\ map_file = Unreadable
    /\ Conv.op = "data_to_video_time" /\ Conv.arg = 2
    /\ Conv.result = RNone

\* the last response of a route, the mapper result it was built from
Reply == Val(reply)
IsTimeRoute == reply # None /\ Reply.route \in {"get_video_time", "get_data_timestamp"}
MapperResult ==
    IF MapperUsable(video_timestamp_mapper) THEN Conv.result ELSE RNone
\* the response is a success carrying the number num / den
Carries(response, num, den) ==
    response.status = 200 /\ response.value.num * den = num * response.value.den

\* C21: when the mapper is unavailable or returns None, get_video_time answers
\* max(0, t - YOUTUBE_START_OFFSET) and get_data_timestamp v + YOUTUBE_START_OFFSET,
\* both as successes; when the mapper returns a value, that value is the answer.
C21_OffsetFallback ==
    IsTimeRoute =>
        /\ MapperUsable(video_timestamp_mapper) =>
              /\ conversion # None /\ Conv.arg = Reply.arg
              /\ Conv.op = "data_to_video_time" <=> Reply.route = "get_video_time"
        /\ MapperResult.kind = "none" =>
              IF Reply.route = "get_video_time"
              THEN Carries(Reply.response,
                           Max(0, Reply.arg - YOUTUBE_START_OFFSET), 1)
              ELSE Carries(Reply.response, Reply.arg + YOUTUBE_START_OFFSET, 1)
        /\ MapperResult.kind = "value" =>
              Carries(Reply.response, MapperResult.num, MapperResult.den)

\* a mapper whose only anchor has a null video time returned None for the
\* telemetry time 1, and the offset 2 is past it: the answer is 0
C21_Witness ==
    /\ IsTimeRoute /\ Reply.route = "get_video_time" /\ Reply.arg = 1
    /\ YOUTUBE_START_OFFSET = 2
    /\ MapperUsable(video_timestamp_mapper)
    /\ conversion # None /\ Conv.result = RNone
    /\ Reply.response = OkTime(Rat(0, 1), TRUE)

\* the last call of get_path_data on an installed store: its arguments, the
\* path returned, the number of rows
IsPathReply ==
    reply # None /\ Reply.route = "get_path_data" /\ Reply.response.status = 200
Path == Reply.response.path

\* C22: when end_index - start_index > max_range the reported end_index is
\* min(start_index + max_range, N - 1); and always the path is the samples of
\* the indices start_index .. reported end_index, in ascending order.
C22_PathRange ==
    IsPathReply =>
        /\ Reply.end_index - Reply.start_index > max_range =>
              Reply.response.end_index = Min(Reply.start_index + max_range, Count - 1)
        /\ Len(Path) = Max(0, Reply.response.end_index - Reply.start_index + 1)
        /\ \A k \in 1..Len(Path) :
              /\ Path[k].index = Reply.start_index + k - 1
              /\ Some(Path[k]) = get_data_at_index(Val(processor), Path[k].index)

\* the request 0 .. 2 * max_range on a store of max_range + 2 rows is cut to
\* 0 .. max_range
C22_Witness ==
    /\ IsPathReply /\ Count = max_range + 2
    /\ Reply.start_index = 0 /\ Reply.end_index = 2 * max_range
    /\ Reply.response.end_index = max_range
    /\ Path[Len(Path)].index = max_range

\* C23: get_path_data never returns more than max_range path points.
C23_AtMostMaxSpan == IsPathReply => Len(Path) <= max_range

\* the last /api/init of SpecLoad: its raw source
IsInitReply == reply # None /\ Reply.route = "init"
Source == Reply.source
\* the cell parses as a duration-like text or as bare numeric seconds
Parseable(cell) == cell.kind \in {"duration", "integer", "decimal"}

\* C24: an /api/init that reports a failure leaves the installed processor as
\* it was: the store installed before, or none.
C24_FailedInitKeepsStore ==
    [][(reply' # reply /\ reply' # None /\ Val(reply').route = "init"
          /\ Val(reply').response.status # 200)
        => processor' = processor]_vars

\* C25: an /api/init from a source in which no row has a parseable timestamp
\* reports a failure and installs no empty store.
C25_NoValidTimestamps ==
    (IsInitReply /\ Source.kind = "csv"
       /\ \A i \in 1..Len(Source.rows) : ~Parseable(Source.rows[i])) =>
        /\ Reply.response.status # 200
        /\ processor # Some(<<>>)

\* C26: after a successful /api/init the store has one row for each raw row
\* whose timestamp parses as a duration text or as a bare number, and none for
\* the others, whatever the mix of the two formats in the source.
C26_KeptIffParseable ==
    (IsInitReply /\ Reply.response.status = 200) =>
        Count = Cardinality({i \in 1..Len(Source.rows) : Parseable(Source.rows[i])})

\* C27: after a successful /api/init the timestamps of the store are
\* non-decreasing in index order.
C27_SortedAfterLoad ==
    (IsInitReply /\ Reply.response.status = 200) => IsAscending(Val(processor))

\* the last get_data_at_index call on an installed store
IsSampleReply ==
    reply # None /\ Reply.route = "get_data_at_index" /\ Reply.response.status # 400

\* C28: get_data_at_index(i) is not-found, without an exception, for every i
\* outside [0, N), the negative ones included; for i in [0, N) it is the sample
\* of storage position i, with index field i.
C28_SampleAt ==
    IsSampleReply =>
        IF Reply.index < 0 \/ Reply.index >= Count
        THEN Reply.response.status = 404
        ELSE /\ Reply.response.status = 200
             /\ Reply.response.data.index = Reply.index
             /\ Reply.response.data.timestamp = Val(processor)[Reply.index + 1]

\* index -1 on a store of 3 rows is not-found, not the last row
C28_Witness ==
    /\ IsSampleReply /\ Count = 3
    /\ Reply.index = -1 /\ Reply.response.status = 404

\* C30: a tick that finds playback_active false emits nothing, leaves
\* playback_index, last_timestamp and playback_speed as they are, and its
\* thread is at the head of the loop again, alive.
C30_IdlePoll ==
    [][\A t \in Threads :
         (LoopWhile(t) /\ ~playback_active) =>
            /\ out' = {}
            /\ playback_index' = playback_index
            /\ last_timestamp' = last_timestamp
            /\ playback_speed' = playback_speed
            /\ pc'[t] = "while" /\ Alive(t)
      ]_vars

\* a loop that has sent frames is paused and at the head of the loop, where its
\* poll leaves the state as it is
C30_Witness ==
    \E t \in Threads :
        /\ pc[t] = "while" /\ ~playback_active /\ out = {}
        /\ last_timestamp[t] # None /\ playback_index > 0
        /\ \A u \in Threads \ {t} : pc[u] = "none"

\* C29: under any interleaving of /api/init with the video-time route and with
\* the ticks of the playback loop, a lookup never mixes two stores: the sample
\* the route fetches comes from the processor its index was found in, and the
\* sample a tick fetches comes from the processor whose count the tick compared
\* with the cursor.
C29_NoMixedStores ==
    [][/\ (/\ video_request # None
           /\ Val(video_request).pc = "fetch"
           /\ video_request' = None)
          => Val(video_request).index_store = processor
       /\ \A t \in Threads :
             (pc[t] = "fetch" /\ pc'[t] # "fetch") => count_store[t] = processor
      ]_vars

\* C31: start_playback with an index outside [0, N), negative or >= N, is
\* accepted as it is, and the next tick goes to the Finished transition: the
\* tick that finds playback_active true and the cursor outside [0, N) emits
\* nothing and goes on to clear playback_active and send playback_finished.
C31_OutOfRangeStartFinishes ==
    [][\A t \in Threads :
         (/\ pc[t] = "while" /\ pc'[t] # "while"
          /\ processor # None
          /\ (playback_index < 0 \/ playback_index >= Count))
           => (pc'[t] = "finish" /\ out' = {})
      ]_vars

\* C32: a tick that found playback_active true and fetches at a cursor i in
\* [0, N) broadcasts sample i to the UI sink (frame_update) exactly once and sets
\* its last_timestamp to the timestamp of sample i; and, no request having moved
\* the cursor since the fetch, its increment leaves the cursor at i + 1.
IsFrame(e) == e[1] = "frame_update"
C32_TickBroadcastsSample ==
    [][\A t \in Threads :
         /\ (pc[t] = "fetch" /\ pc'[t] # "fetch"
               /\ playback_index \in 0..(Count - 1))
              => /\ {e \in out' : IsFrame(e)} = {Ev("frame_update", playback_index)}
                 /\ last_timestamp'[t] = Some(Val(processor)[playback_index + 1])
         /\ (pc[t] = "advance" /\ pc'[t] # "advance" /\ data[t] # None
               /\ playback_index = Val(data[t]).index)
              => playback_index' = Val(data[t]).index + 1
      ]_vars

\* the anchors of the mapping file in telemetry order and in external order
\* (the second where every external time is a number), the numbers among the
\* external times
Anchors ==
    [i \in 1..Len(map_file.entries) |->
        <<map_file.entries[i].data_timestamp, map_file.entries[i].video_time>>]
ByTelemetry == Sorted("tuple", Anchors)
ByExternal == Sorted("video", ByTelemetry)
AllNumbers(c) == \A i \in 1..Len(Anchors) : Anchors[i][c] # None
ExternalTimes == {Val(Anchors[i][2]) : i \in {k \in 1..Len(Anchors) : Anchors[k][2] # None}}

\* C33: on an available mapper data_to_video_time answers the external time of
\* the first anchor in telemetry order for every time at or before that
\* anchor's telemetry time, and that of the last anchor for every time after
\* the last anchor's; video_to_data_time does the same on the anchors in
\* external order; a query outside the external times of the anchors is
\* answered with the telemetry time of an anchor.
C33_ClampsAtEnds ==
    (video_timestamp_mapper # None /\ conversion # None /\ is_available(Mapper)) =>
        LET n == Len(Anchors) IN
        /\ (Conv.op = "data_to_video_time" /\ AllNumbers(1)) =>
              /\ Conv.arg <= Val(ByTelemetry[1][1])
                   => Conv.result = RField(ByTelemetry[1][2])
              /\ Conv.arg > Val(ByTelemetry[n][1])
                   => Conv.result = RField(ByTelemetry[n][2])
        /\ (Conv.op = "video_to_data_time" /\ AllNumbers(2)) =>
              /\ Conv.arg <= Val(ByExternal[1][2])
                   => Conv.result = RField(ByExternal[1][1])
              /\ Conv.arg > Val(ByExternal[n][2])
                   => Conv.result = RField(ByExternal[n][1])
        /\ (/\ Conv.op = "video_to_data_time" /\ ExternalTimes # {}
            /\ \/ \A v \in ExternalTimes : Conv.arg <= v
               \/ \A v \in ExternalTimes : Conv.arg > v)
             => \E i \in 1..n : Conv.result = RField(Anchors[i][1])

\* a request has just arrived (its handler's first step is the last step taken);
\* the loop has just gone through the Finished transition
RequestArrived ==
    \E e \in out : e[1] \in {"init_ok", "log_start_current", "log_start_index"}
Finished ==
    /\ ~playback_active
    /\ out = {Ev("playback_finished", 0)}
    /\ LiveLoops = {}

\* C34: from every state in which playback_active is true, the cursor is in
\* [0, N] and the speed in (0, 2.0], the loop, scheduled fairly, reaches
\* Finished (playback_active false, playback_finished sent, thread ended)
\* unless a further request arrives.
C34_PlaysToFinished ==
    (/\ processor # None /\ playback_active
     /\ playback_index \in 0..Count
     /\ playback_speed \in 1..2)
      ~> (Finished \/ RequestArrived)

\* C35: while playback stays paused and no start_playback is being served (from
\* the end of pause_playback to the next start_playback), no tick passes the
\* running check, and the one tick that had passed it is the last to broadcast
\* a sample and the last to advance the cursor: once a sample is broadcast no
\* tick is left that can broadcast, once the cursor is advanced no tick is left
\* that can advance it.
C35_AtMostOneAfterPause ==
    [][(/\ ~playback_active /\ HandlersIdle
        /\ ~playback_active' /\ \A h \in Handlers : hpc'[h] = "idle")
         => /\ \A t \in Threads : pc'[t] = "fetch" => pc[t] = "fetch"
            /\ (\E e \in out' : IsFrame(e))
                 => \A t \in Threads : pc'[t] # "fetch"
            /\ (\E t \in Threads : pc[t] = "advance" /\ pc'[t] # "advance")
                 => \A t \in Threads : pc'[t] \notin {"fetch", "duplex", "advance"}
      ]_vars

\* C36: whatever speeds were requested and whatever the difference between
\* consecutive timestamps, the pacing block of a tick computes a sleep_time: it
\* raises no exception (no division by zero), and the sleep_time is strictly
\* positive.
C36_SleepPositive ==
    [][\A t \in Threads :
         (pc[t] = "fetch" /\ pc'[t] # "fetch")
           => (pc'[t] # "crashed" /\ sleep_time'[t] > 0)
      ]_vars

\* C37: a jump with a valid marker id on an initialized store pauses playback,
\* and the cursor is find_index_for_timestamp(marker time) from the jump's
\* response until the next start_playback or seek, whatever the loop thread
\* does meanwhile; a jump that answers an error leaves the cursor and
\* playback_active as they were.
IsJumpReply(r) == r # None /\ Val(r).route = "jump_to_timestamp"
C37_JumpHoldsCursor ==
    [][/\ (/\ jump_request' # None
           /\ Val(jump_request').pc = "done"
           /\ ~Val(jump_request').superseded)
          => playback_index' = Val(jump_request').index
       /\ (/\ jump_request # None /\ Val(jump_request).pc = "pause"
           /\ jump_request' # None /\ Val(jump_request').pc = "done")
          => ~playback_active'
       /\ (/\ reply' # reply /\ IsJumpReply(reply')
           /\ Val(reply').response.status # 200)
          => (playback_index' = playback_index
                /\ playback_active' = playback_active)
      ]_vars


====
